---- MODULE Spec2Model ----
(***************************************************************************)
(* SignZero: one opinion instance (smart contract SignZero) on the ledger. *)
(* The state is the contract's global state and boxes, the Signature       *)
(* Asset's configuration and holder set, the instance account's balance    *)
(* and the ledger round.  One action per contract method; each action is   *)
(* one atomic group: it commits as a whole or leaves the state unchanged.  *)
(***************************************************************************)
EXTENDS Integers, Sequences, FiniteSets, TLC

\* ------------------------------------------------------------------ bounds
\* Stand-in for the largest uint64 (TLC integers are 32 bits wide).
MAX_UINT64 == 2000000000
\* Rounds explored past end_round.
MaxOverrun == 1
\* Successful extends explored.
MaxExtends == 1
\* Plain payments to the instance account explored.
MaxDonations == 1

\* --------------------------------------------------------------- constants
MIN_FUNDING == 20000000
MIN_DURATION == 25000
\* Identifier the ledger gives the asset created by initialize.
CreatedAssetId == 1001
\* Identifier of an unrelated asset (the "Fake" asset of the e2e test).
FakeAssetId == 1002
\* Global.round when the application is created: an ordinary round, or a
\* round so late that round + MIN_DURATION leaves the uint64 range.
CreationRound == 1000
LateRound == MAX_UINT64 - MIN_DURATION + 1

Accounts == {"alice", "bob"}
\* Global.currentApplicationAddress
AppAddress == "app"
\* Account(): the zero address
ZeroAddress == "zero"
\* GlobalState slot that holds no value
NoValue == -1

\* ------------------------------------------------------------------- boxes
\* A box is its allocated size and its non-zero bytes (a fresh box is all
\* zero bytes); offsets are 0-based.
EmptyBytes == [o \in {} |-> 0]
NoBox == [exists |-> FALSE, size |-> 0, nz |-> EmptyBytes]

BoxCreate(size) == [exists |-> TRUE, size |-> size, nz |-> EmptyBytes]

\* box.replace(offset, data) is rejected by the AVM when the range leaves the box
BoxReplaceOk(box, offset, data) ==
    box.exists /\ offset + Len(data) <= box.size

\* BoxReplace that skips the zero bytes of data
BoxReplaceSkipsZero(box, offset, data) ==
    LET rng == {o \in offset .. (offset + Len(data) - 1) : data[o - offset + 1] # 0}
        dom == DOMAIN box.nz \cup rng
    IN  [box EXCEPT !.nz = [o \in dom |-> IF o \in rng THEN data[o - offset + 1]
                                                        ELSE box.nz[o]]]

BoxReplace(box, offset, data) ==
    LET rng == offset .. (offset + Len(data) - 1)
        dom == (DOMAIN box.nz \ rng) \cup {o \in rng : data[o - offset + 1] # 0}
    IN  [box EXCEPT !.nz = [o \in dom |-> IF o \in rng THEN data[o - offset + 1]
                                                        ELSE box.nz[o]]]

\* Byte of a box at an offset inside it
BoxByte(box, o) == IF o \in DOMAIN box.nz THEN box.nz[o] ELSE 0

\* flags & (1 << k)
BitSet(flags, k) == (flags \div (2 ^ k)) % 2 = 1

VARIABLES
    round,        \* Global.round
    initialized,  \* GlobalState 'init'
    finalized,    \* GlobalState 'finalized'
    startRound,   \* GlobalState 'start'
    endRound,     \* GlobalState 'end'
    asaId,        \* GlobalState 'asa'
    gFlags,       \* GlobalState 'gf'
    gBalMin,      \* GlobalState 'gbmin'
    gBalMax,      \* GlobalState 'gbmax'
    gMinAge,      \* GlobalState 'gage'
    opinionText,  \* Box 'text'
    gateHold,     \* Box 'gate_hold'
    gateDeny,     \* Box 'gate_deny'
    gateNfd,      \* Box 'gate_nfd'
    asset,        \* configuration of the Signature Asset
    holders,      \* accounts opted in to the Signature Asset
    appBalance,   \* balance of the instance account
    payouts,      \* inner payments the instance has issued
    reconfigs,    \* inner asset reconfigurations the instance has issued
    extends,      \* successful extends so far
    donations,    \* plain payments received so far
    last          \* the last operation attempted and its outcome

contractVars == <<initialized, finalized, startRound, endRound, asaId,
                  gFlags, gBalMin, gBalMax, gMinAge,
                  opinionText, gateHold, gateDeny, gateNfd>>
gateVars == <<gFlags, gBalMin, gBalMax, gMinAge, gateHold, gateDeny, gateNfd>>
ledgerVars == <<asset, holders, appBalance, payouts, reconfigs>>
\* everything an operation can change (the whole state but the clock and
\* the bookkeeping of the exploration)
stateVars == <<contractVars, ledgerVars>>
vars == <<round, contractVars, ledgerVars, extends, donations, last>>

NoAsset == [exists |-> FALSE, total |-> 0, decimals |-> 0,
            manager |-> ZeroAddress, reserve |-> ZeroAddress,
            freeze |-> ZeroAddress, clawback |-> ZeroAddress,
            nameLen |-> 0, urlLen |-> 0]

\* Asset(this.asaId.value).reserve
Reserve == asset.reserve

\* Minimum balance the ledger requires of the instance account for a given
\* set of boxes: the account itself, the asset it created, and per box
\* 2500 + 400 * (key length + size).
BoxMbr(box, keyLen) == IF box.exists THEN 2500 + 400 * (keyLen + box.size) ELSE 0

MinBalanceOf(a, text, hold, deny, nfd) ==
    100000 + (IF a.exists THEN 100000 ELSE 0)
    + BoxMbr(text, 4) + BoxMbr(hold, 9) + BoxMbr(deny, 9) + BoxMbr(nfd, 8)

\* Global.currentApplicationAddress.minBalance
MinBalance == MinBalanceOf(asset, opinionText, gateHold, gateDeny, gateNfd)

Outcome(op, caller, err, arg, ret) ==
    [op |-> op, caller |-> caller, err |-> err, arg |-> arg, ret |-> ret]

\* createApplication has run: both flags false, nothing else stored.
Init ==
    /\ round \in {CreationRound, LateRound}
    /\ initialized = FALSE
    /\ finalized = FALSE
    /\ startRound = NoValue
    /\ endRound = NoValue
    /\ asaId = NoValue
    /\ gFlags = NoValue
    /\ gBalMin = NoValue
    /\ gBalMax = NoValue
    /\ gMinAge = NoValue
    /\ opinionText = NoBox
    /\ gateHold = NoBox
    /\ gateDeny = NoBox
    /\ gateNfd = NoBox
    /\ asset = NoAsset
    /\ holders = {}
    /\ appBalance = 0
    /\ payouts = <<>>
    /\ reconfigs = 0
    /\ extends = 0
    /\ donations = 0
    /\ last = Outcome("createApplication", "alice", "ok", 0, <<>>)

\* ------------------------------------------------------------- initialize
\* The group around an initialize call: its size and its first transaction.
InitGroups ==
    [size : {1, 2, 3}, kind : {"pay"}, receiver : {AppAddress},
     amount : {MIN_FUNDING}, sender : {"alice"}]
    \cup [size : {2}, kind : {"pay", "axfer"}, receiver : {AppAddress, "bob"},
          amount : {MIN_FUNDING - 1, MIN_FUNDING},
          sender : {"alice", "bob"}]

\* A well-formed group: the caller's own payment of the minimum funding
GoodInitGroup(caller) ==
    [size |-> 2, kind |-> "pay", receiver |-> AppAddress,
     amount |-> MIN_FUNDING, sender |-> caller]

\* title, textSize, duration, opinionType, url (strings and byte arrays by
\* their length; the type tag also by whether it is all zero bytes)
GoodInitArgs ==
    [titleLen : {32}, textSize : {2}, duration : {MIN_DURATION},
     typeLen : {32}, typeZero : {FALSE}, urlLen : {96}]

InitArgs ==
    GoodInitArgs
    \cup [titleLen : {0, 33}, textSize : {2}, duration : {MIN_DURATION},
          typeLen : {32}, typeZero : {FALSE}, urlLen : {96}]
    \cup [titleLen : {32}, textSize : {0, 32769}, duration : {MIN_DURATION},
          typeLen : {32}, typeZero : {FALSE}, urlLen : {96}]
    \cup [titleLen : {32}, textSize : {2},
          duration : {MIN_DURATION - 1},
          typeLen : {32}, typeZero : {FALSE}, urlLen : {96}]
    \cup [titleLen : {32}, textSize : {2}, duration : {MIN_DURATION},
          typeLen : {31, 32, 33}, typeZero : {TRUE, FALSE}, urlLen : {96, 97}]

\* InitializeErr without the 'Already initialized' assertion
InitializeErrNoInitializedGuard(g, a) ==
    IF ~(g.size >= 2) THEN "Expected payment + app call"
    ELSE IF g.kind # "pay" THEN "transaction type is not pay"
    ELSE IF g.receiver # AppAddress THEN "Payment must go to app"
    ELSE IF ~(g.amount >= MIN_FUNDING) THEN "Minimum 20 ALGO required"
    ELSE IF ~(a.duration >= MIN_DURATION) THEN "Minimum duration 25,000 rounds"
    ELSE IF a.titleLen = 0 THEN "Title cannot be empty"
    ELSE IF ~(a.titleLen <= 32) THEN "Title exceeds 32 bytes"
    ELSE IF ~(a.textSize > 0) THEN "Text size must be > 0"
    ELSE IF ~(a.textSize <= 32768) THEN "Text exceeds 32KB"
    ELSE IF a.typeLen # 32 THEN "Opinion type must be 32 bytes"
    ELSE IF a.typeZero THEN "Opinion type cannot be empty"
    ELSE IF ~(a.urlLen <= 96) THEN "URL exceeds 96 bytes"
    ELSE IF round > MAX_UINT64 - a.duration THEN "+ overflows"
    ELSE "ok"

\* InitializeErr without the failure of the uint64 addition
InitializeErrNoOverflowCheck(g, a) ==
    IF initialized THEN "Already initialized"
    ELSE IF ~(g.size >= 2) THEN "Expected payment + app call"
    ELSE IF g.kind # "pay" THEN "transaction type is not pay"
    ELSE IF g.receiver # AppAddress THEN "Payment must go to app"
    ELSE IF ~(g.amount >= MIN_FUNDING) THEN "Minimum 20 ALGO required"
    ELSE IF ~(a.duration >= MIN_DURATION) THEN "Minimum duration 25,000 rounds"
    ELSE IF a.titleLen = 0 THEN "Title cannot be empty"
    ELSE IF ~(a.titleLen <= 32) THEN "Title exceeds 32 bytes"
    ELSE IF ~(a.textSize > 0) THEN "Text size must be > 0"
    ELSE IF ~(a.textSize <= 32768) THEN "Text exceeds 32KB"
    ELSE IF a.typeLen # 32 THEN "Opinion type must be 32 bytes"
    ELSE IF a.typeZero THEN "Opinion type cannot be empty"
    ELSE IF ~(a.urlLen <= 96) THEN "URL exceeds 96 bytes"
    ELSE IF opinionText.exists THEN "box already exists"
    ELSE "ok"

\* InitializeErr without the assertion on the payment's amount
InitializeErrNoFundingCheck(g, a) ==
    IF initialized THEN "Already initialized"
    ELSE IF ~(g.size >= 2) THEN "Expected payment + app call"
    ELSE IF g.kind # "pay" THEN "transaction type is not pay"
    ELSE IF g.receiver # AppAddress THEN "Payment must go to app"
    ELSE IF ~(a.duration >= MIN_DURATION) THEN "Minimum duration 25,000 rounds"
    ELSE IF a.titleLen = 0 THEN "Title cannot be empty"
    ELSE IF ~(a.titleLen <= 32) THEN "Title exceeds 32 bytes"
    ELSE IF ~(a.textSize > 0) THEN "Text size must be > 0"
    ELSE IF ~(a.textSize <= 32768) THEN "Text exceeds 32KB"
    ELSE IF a.typeLen # 32 THEN "Opinion type must be 32 bytes"
    ELSE IF a.typeZero THEN "Opinion type cannot be empty"
    ELSE IF ~(a.urlLen <= 96) THEN "URL exceeds 96 bytes"
    ELSE IF round > MAX_UINT64 - a.duration THEN "+ overflows"
    ELSE IF opinionText.exists THEN "box already exists"
    ELSE "ok"

\* The first assertion of initialize that fails, or "ok"
InitializeErr(g, a) ==
    IF initialized THEN "Already initialized"
    ELSE IF ~(g.size >= 2) THEN "Expected payment + app call"
    ELSE IF g.kind # "pay" THEN "transaction type is not pay"
    ELSE IF g.receiver # AppAddress THEN "Payment must go to app"
    ELSE IF ~(g.amount >= MIN_FUNDING) THEN "Minimum 20 ALGO required"
    ELSE IF ~(a.duration >= MIN_DURATION) THEN "Minimum duration 25,000 rounds"
    ELSE IF a.titleLen = 0 THEN "Title cannot be empty"
    ELSE IF ~(a.titleLen <= 32) THEN "Title exceeds 32 bytes"
    ELSE IF ~(a.textSize > 0) THEN "Text size must be > 0"
    ELSE IF ~(a.textSize <= 32768) THEN "Text exceeds 32KB"
    ELSE IF a.typeLen # 32 THEN "Opinion type must be 32 bytes"
    ELSE IF a.typeZero THEN "Opinion type cannot be empty"
    ELSE IF ~(a.urlLen <= 96) THEN "URL exceeds 96 bytes"
    ELSE IF round > MAX_UINT64 - a.duration THEN "+ overflows"
    ELSE IF opinionText.exists THEN "box already exists"
    ELSE "ok"

\* Initialize whose payment reaches the instance even when the call fails
InitializeKeepsPayment(caller, g, a) ==
    LET err == InitializeErr(g, a)
        newAsset == [exists |-> TRUE, total |-> 0, decimals |-> 0,
                     manager |-> AppAddress, reserve |-> caller,
                     freeze |-> ZeroAddress, clawback |-> ZeroAddress,
                     nameLen |-> a.titleLen, urlLen |-> a.urlLen]
    IN  IF err = "ok"
        THEN /\ startRound' = round
             /\ endRound' = round + a.duration
             /\ opinionText' = BoxCreate(a.textSize)
             /\ asset' = newAsset
             /\ asaId' = CreatedAssetId
             /\ initialized' = TRUE
             /\ appBalance' = appBalance + g.amount
             /\ last' = Outcome("initialize", caller, "ok",
                                [group |-> g, args |-> a], CreatedAssetId)
             /\ UNCHANGED <<round, finalized, gateVars, holders, payouts,
                            reconfigs, extends, donations>>
        ELSE /\ last' = Outcome("initialize", caller, err,
                                [group |-> g, args |-> a], 0)
             /\ appBalance' = IF g.kind = "pay" /\ g.receiver = AppAddress /\ ~initialized
                              THEN g.amount ELSE appBalance
             /\ UNCHANGED <<round, contractVars, asset, holders, payouts,
                            reconfigs, extends, donations>>

\* Initialize storing the duration itself as the end round
InitializeEndIsDuration(caller, g, a) ==
    LET err == InitializeErr(g, a)
        newAsset == [exists |-> TRUE, total |-> 0, decimals |-> 0,
                     manager |-> AppAddress, reserve |-> caller,
                     freeze |-> ZeroAddress, clawback |-> ZeroAddress,
                     nameLen |-> a.titleLen, urlLen |-> a.urlLen]
    IN  IF err = "ok"
        THEN /\ startRound' = round
             /\ endRound' = a.duration
             /\ opinionText' = BoxCreate(a.textSize)
             /\ asset' = newAsset
             /\ asaId' = CreatedAssetId
             /\ initialized' = TRUE
             /\ appBalance' = appBalance + g.amount
             /\ last' = Outcome("initialize", caller, "ok",
                                [group |-> g, args |-> a], CreatedAssetId)
             /\ UNCHANGED <<round, finalized, gateVars, holders, payouts,
                            reconfigs, extends, donations>>
        ELSE /\ last' = Outcome("initialize", caller, err,
                                [group |-> g, args |-> a], 0)
             /\ UNCHANGED <<round, contractVars, ledgerVars, extends, donations>>

Initialize(caller, g, a) ==
    LET err == InitializeErr(g, a)
        newAsset == [exists |-> TRUE, total |-> 0, decimals |-> 0,
                     manager |-> AppAddress, reserve |-> caller,
                     freeze |-> ZeroAddress, clawback |-> ZeroAddress,
                     nameLen |-> a.titleLen, urlLen |-> a.urlLen]
    IN  IF err = "ok"
        THEN /\ startRound' = round
             /\ endRound' = round + a.duration
             /\ opinionText' = BoxCreate(a.textSize)
             /\ asset' = newAsset
             /\ asaId' = CreatedAssetId
             /\ initialized' = TRUE
             /\ appBalance' = appBalance + g.amount
             /\ last' = Outcome("initialize", caller, "ok",
                                [group |-> g, args |-> a], CreatedAssetId)
             /\ UNCHANGED <<round, finalized, gateVars, holders, payouts,
                            reconfigs, extends, donations>>
        ELSE /\ last' = Outcome("initialize", caller, err,
                                [group |-> g, args |-> a], 0)
             /\ UNCHANGED <<round, contractVars, ledgerVars, extends, donations>>

\* The accounts are interchangeable: the uninitialized instance is offered
\* alice's calls only, an initialized one everybody's.
InitializeStep ==
    IF initialized
    THEN \E caller \in Accounts, a \in GoodInitArgs :
            Initialize(caller, GoodInitGroup(caller), a)
    ELSE \E g \in InitGroups, a \in InitArgs : Initialize("alice", g, a)

\* ------------------------------------------------------------- writeChunk
\* (offset, data) pairs: in range, partly out of range
WriteInputs ==
    {<<0, <<1>>>>, <<1, <<2, 2>>>>}

\* WriteChunkErr without the assertion on the caller
WriteChunkErrNoAuthorCheck(caller, offset, data) ==
    IF ~initialized THEN "Not initialized"
    ELSE IF finalized THEN "Opinion already finalized"
    ELSE IF ~BoxReplaceOk(opinionText, offset, data) THEN "box replace out of range"
    ELSE "ok"

\* WriteChunkErr without the 'Opinion already finalized' assertion
WriteChunkErrNoFinalizedGuard(caller, offset, data) ==
    IF ~initialized THEN "Not initialized"
    ELSE IF caller # Reserve THEN "Only author can write"
    ELSE IF ~BoxReplaceOk(opinionText, offset, data) THEN "box replace out of range"
    ELSE "ok"

\* WriteChunkErr refusing writes once the end round has passed
WriteChunkErrWhileActive(caller, offset, data) ==
    IF ~initialized THEN "Not initialized"
    ELSE IF finalized THEN "Opinion already finalized"
    ELSE IF ~(round <= endRound) THEN "Opinion has ended"
    ELSE IF caller # Reserve THEN "Only author can write"
    ELSE IF ~BoxReplaceOk(opinionText, offset, data) THEN "box replace out of range"
    ELSE "ok"

WriteChunkErr(caller, offset, data) ==
    IF ~initialized THEN "Not initialized"
    ELSE IF finalized THEN "Opinion already finalized"
    ELSE IF caller # Reserve THEN "Only author can write"
    ELSE IF ~BoxReplaceOk(opinionText, offset, data) THEN "box replace out of range"
    ELSE "ok"

WriteChunk(caller, offset, data) ==
    LET err == WriteChunkErr(caller, offset, data)
    IN  /\ last' = Outcome("writeChunk", caller, err,
                           [offset |-> offset, data |-> data], <<>>)
        /\ IF err = "ok"
           THEN /\ opinionText' = BoxReplace(opinionText, offset, data)
                /\ UNCHANGED <<round, initialized, finalized, startRound, endRound,
                               asaId, gateVars, ledgerVars, extends, donations>>
           ELSE UNCHANGED <<round, contractVars, ledgerVars, extends, donations>>

WriteChunkStep ==
    \E caller \in Accounts, w \in WriteInputs : WriteChunk(caller, w[1], w[2])

\* --------------------------------------------------------------- setGates
\* Packed lists by their bytes: nothing, 7 bytes (misaligned), one entry.
Blob(n) == [i \in 1 .. n |-> 1]
\* Declarations with the hold-list and minimum-balance gates (bits 0 and 2),
\* with no gate, and with a faulty hold list
GateArgs ==
    [flags : {0, 5}, balMin : {1000}, balMax : {2000}, minAge : {10},
     asaHold : {Blob(0), Blob(7), Blob(8)}, asaDeny : {Blob(8)},
     nfdRoot : {<<100, 97, 111>>}]
    \* the deny-list gate too (bit 1), with a faulty deny list
    \cup [flags : {7}, balMin : {1000}, balMax : {2000}, minAge : {10},
          asaHold : {Blob(8)}, asaDeny : {Blob(0), Blob(7)},
          nfdRoot : {<<100, 97, 111>>}]
    \* the minimum-balance gate alone, with a misaligned hold list supplied
    \cup [flags : {4}, balMin : {1000}, balMax : {2000}, minAge : {10},
          asaHold : {Blob(7)}, asaDeny : {Blob(8)},
          nfdRoot : {<<100, 97, 111>>}]

\* A well-formed declaration: hold list of one entry and minimum balance
GoodGateArgs ==
    [flags |-> 5, balMin |-> 1000, balMax |-> 2000, minAge |-> 10,
     asaHold |-> Blob(8), asaDeny |-> Blob(8), nfdRoot |-> <<100, 97, 111>>]

\* GateHoldAfter creating the hold-list box whatever the flag word
GateHoldAfterAnyFlag(a) ==
    BoxReplace(BoxCreate(Len(a.asaHold)), 0, a.asaHold)

\* The boxes setGates leaves behind when all its assertions pass
GateHoldAfter(a) ==
    IF BitSet(a.flags, 0)
    THEN BoxReplace(BoxCreate(Len(a.asaHold)), 0, a.asaHold) ELSE gateHold
GateDenyAfter(a) ==
    IF BitSet(a.flags, 1)
    THEN BoxReplace(BoxCreate(Len(a.asaDeny)), 0, a.asaDeny) ELSE gateDeny
GateNfdAfter(a) ==
    IF BitSet(a.flags, 6)
    THEN BoxReplace(BoxCreate(Len(a.nfdRoot)), 0, a.nfdRoot) ELSE gateNfd

\* SetGatesErr without the assertions on the lists' lengths being N*8
SetGatesErrNoAlignCheck(caller, a) ==
    IF ~initialized THEN "Not initialized"
    ELSE IF caller # Reserve THEN "Only author can set gates"
    ELSE IF ~(gFlags = NoValue \/ gFlags = 0) THEN "Gates already set"
    ELSE IF ~(a.flags > 0) THEN "Must enable at least one gate"
    ELSE IF BitSet(a.flags, 0) /\ ~(Len(a.asaHold) > 0) THEN "asaHold cannot be empty"
    ELSE IF BitSet(a.flags, 0) /\ gateHold.exists THEN "box already exists"
    ELSE IF BitSet(a.flags, 1) /\ ~(Len(a.asaDeny) > 0) THEN "asaDeny cannot be empty"
    ELSE IF BitSet(a.flags, 1) /\ gateDeny.exists THEN "box already exists"
    ELSE IF BitSet(a.flags, 6) /\ a.nfdRoot = <<>> THEN "nfdRoot cannot be empty"
    ELSE IF BitSet(a.flags, 6) /\ gateNfd.exists THEN "box already exists"
    ELSE IF appBalance < MinBalanceOf(asset, opinionText, GateHoldAfter(a),
                                      GateDenyAfter(a), GateNfdAfter(a))
         THEN "balance below min"
    ELSE "ok"

\* SetGatesErr without the 'Gates already set' assertion
SetGatesErrNoOnceGuard(caller, a) ==
    IF ~initialized THEN "Not initialized"
    ELSE IF caller # Reserve THEN "Only author can set gates"
    ELSE IF ~(a.flags > 0) THEN "Must enable at least one gate"
    ELSE IF BitSet(a.flags, 0) /\ ~(Len(a.asaHold) > 0) THEN "asaHold cannot be empty"
    ELSE IF BitSet(a.flags, 0) /\ Len(a.asaHold) % 8 # 0 THEN "asaHold must be N*8 bytes"
    ELSE IF BitSet(a.flags, 0) /\ gateHold.exists THEN "box already exists"
    ELSE IF BitSet(a.flags, 1) /\ ~(Len(a.asaDeny) > 0) THEN "asaDeny cannot be empty"
    ELSE IF BitSet(a.flags, 1) /\ Len(a.asaDeny) % 8 # 0 THEN "asaDeny must be N*8 bytes"
    ELSE IF BitSet(a.flags, 1) /\ gateDeny.exists THEN "box already exists"
    ELSE IF BitSet(a.flags, 6) /\ a.nfdRoot = <<>> THEN "nfdRoot cannot be empty"
    ELSE IF BitSet(a.flags, 6) /\ gateNfd.exists THEN "box already exists"
    ELSE IF appBalance < MinBalanceOf(asset, opinionText, GateHoldAfter(a),
                                      GateDenyAfter(a), GateNfdAfter(a))
         THEN "balance below min"
    ELSE "ok"

SetGatesErr(caller, a) ==
    IF ~initialized THEN "Not initialized"
    ELSE IF caller # Reserve THEN "Only author can set gates"
    ELSE IF ~(gFlags = NoValue \/ gFlags = 0) THEN "Gates already set"
    ELSE IF ~(a.flags > 0) THEN "Must enable at least one gate"
    ELSE IF BitSet(a.flags, 0) /\ ~(Len(a.asaHold) > 0) THEN "asaHold cannot be empty"
    ELSE IF BitSet(a.flags, 0) /\ Len(a.asaHold) % 8 # 0 THEN "asaHold must be N*8 bytes"
    ELSE IF BitSet(a.flags, 0) /\ gateHold.exists THEN "box already exists"
    ELSE IF BitSet(a.flags, 1) /\ ~(Len(a.asaDeny) > 0) THEN "asaDeny cannot be empty"
    ELSE IF BitSet(a.flags, 1) /\ Len(a.asaDeny) % 8 # 0 THEN "asaDeny must be N*8 bytes"
    ELSE IF BitSet(a.flags, 1) /\ gateDeny.exists THEN "box already exists"
    ELSE IF BitSet(a.flags, 6) /\ a.nfdRoot = <<>> THEN "nfdRoot cannot be empty"
    ELSE IF BitSet(a.flags, 6) /\ gateNfd.exists THEN "box already exists"
    ELSE IF appBalance < MinBalanceOf(asset, opinionText, GateHoldAfter(a),
                                      GateDenyAfter(a), GateNfdAfter(a))
         THEN "balance below min"
    ELSE "ok"

SetGates(caller, a) ==
    LET err == SetGatesErr(caller, a)
    IN  /\ last' = Outcome("setGates", caller, err, a, <<>>)
        /\ IF err = "ok"
           THEN /\ gFlags' = a.flags
                /\ gBalMin' = IF BitSet(a.flags, 2) THEN a.balMin ELSE gBalMin
                /\ gBalMax' = IF BitSet(a.flags, 3) THEN a.balMax ELSE gBalMax
                /\ gMinAge' = IF BitSet(a.flags, 5) THEN a.minAge ELSE gMinAge
                /\ gateHold' = GateHoldAfter(a)
                /\ gateDeny' = GateDenyAfter(a)
                /\ gateNfd' = GateNfdAfter(a)
                /\ UNCHANGED <<round, initialized, finalized, startRound, endRound,
                               asaId, opinionText, ledgerVars, extends, donations>>
           ELSE UNCHANGED <<round, contractVars, ledgerVars, extends, donations>>

SetGatesStep ==
    \E caller \in Accounts, a \in GateArgs : SetGates(caller, a)

\* ------------------------------------------------------------------- sign
\* The group around a sign call: its size and its second transaction.
\* A well-formed group for the caller, and the groups that differ from it in
\* one respect.
Other(acct) == CHOOSE x \in Accounts : x # acct

GoodSignGroup(caller) ==
    [size |-> 2, kind |-> "axfer", xferAsset |-> CreatedAssetId, amount |-> 0,
     sender |-> caller, receiver |-> caller]

SignGroups(caller) ==
    LET g == GoodSignGroup(caller)
    IN  {g, [g EXCEPT !.size = 1], [g EXCEPT !.size = 3],
         [g EXCEPT !.kind = "pay"], [g EXCEPT !.xferAsset = FakeAssetId],
         [g EXCEPT !.amount = 1], [g EXCEPT !.sender = Other(caller)],
         [g EXCEPT !.receiver = Other(caller)]}

\* SignErr without the assertion on the transfer's amount
SignErrNoAmountCheck(caller, g) ==
    IF ~initialized THEN "Not initialized"
    ELSE IF ~(round <= endRound) THEN "Opinion has ended"
    ELSE IF finalized THEN "Opinion already finalized"
    ELSE IF g.size # 2 THEN "Expected app call + ASA opt-in"
    ELSE IF g.kind # "axfer" THEN "transaction type is not axfer"
    ELSE IF g.xferAsset # asaId THEN "Must opt into opinion ASA"
    ELSE IF g.sender # caller THEN "Opt-in sender must match caller"
    ELSE IF g.receiver # caller THEN "Opt-in receiver must match caller"
    ELSE "ok"

\* SignErr asserting the round before the initialized flag
SignErrRoundFirst(caller, g) ==
    IF ~(round <= endRound) THEN "Opinion has ended"
    ELSE IF ~initialized THEN "Not initialized"
    ELSE IF finalized THEN "Opinion already finalized"
    ELSE IF g.size # 2 THEN "Expected app call + ASA opt-in"
    ELSE IF g.kind # "axfer" THEN "transaction type is not axfer"
    ELSE IF g.xferAsset # asaId THEN "Must opt into opinion ASA"
    ELSE IF g.amount # 0 THEN "Must be opt-in (amount 0)"
    ELSE IF g.sender # caller THEN "Opt-in sender must match caller"
    ELSE IF g.receiver # caller THEN "Opt-in receiver must match caller"
    ELSE "ok"

\* SignErr enforcing a declared hold-list gate (no account of the model
\* holds a listed asset)
SignErrGated(caller, g) ==
    IF ~initialized THEN "Not initialized"
    ELSE IF ~(round <= endRound) THEN "Opinion has ended"
    ELSE IF finalized THEN "Opinion already finalized"
    ELSE IF gFlags > 0 /\ BitSet(gFlags, 0) THEN "gate not satisfied"
    ELSE IF g.size # 2 THEN "Expected app call + ASA opt-in"
    ELSE IF g.kind # "axfer" THEN "transaction type is not axfer"
    ELSE IF g.xferAsset # asaId THEN "Must opt into opinion ASA"
    ELSE IF g.amount # 0 THEN "Must be opt-in (amount 0)"
    ELSE IF g.sender # caller THEN "Opt-in sender must match caller"
    ELSE IF g.receiver # caller THEN "Opt-in receiver must match caller"
    ELSE "ok"

SignErr(caller, g) ==
    IF ~initialized THEN "Not initialized"
    ELSE IF ~(round <= endRound) THEN "Opinion has ended"
    ELSE IF finalized THEN "Opinion already finalized"
    ELSE IF g.size # 2 THEN "Expected app call + ASA opt-in"
    ELSE IF g.kind # "axfer" THEN "transaction type is not axfer"
    ELSE IF g.xferAsset # asaId THEN "Must opt into opinion ASA"
    ELSE IF g.amount # 0 THEN "Must be opt-in (amount 0)"
    ELSE IF g.sender # caller THEN "Opt-in sender must match caller"
    ELSE IF g.receiver # caller THEN "Opt-in receiver must match caller"
    ELSE "ok"

\* The ledger's effect of a zero-amount transfer of the Signature Asset from
\* an account to itself: the account is registered as a holder.
OptInEffect(acct) == holders \cup {acct}

\* Sign in which the instance pays the signer the minimum balance of the
\* new holding
SignSponsorsOptIn(caller, g) ==
    LET err == SignErr(caller, g)
    IN  /\ last' = Outcome("sign", caller, err, g, <<>>)
        /\ IF err = "ok"
           THEN /\ holders' = OptInEffect(g.sender)
                /\ payouts' = Append(payouts, [to |-> caller, amount |-> 100000])
                /\ appBalance' = appBalance - 100000
                /\ UNCHANGED <<round, contractVars, asset,
                               reconfigs, extends, donations>>
           ELSE UNCHANGED <<round, contractVars, ledgerVars, extends, donations>>

\* Sign whose fee is charged to the instance account
SignChargesInstance(caller, g) ==
    LET err == SignErr(caller, g)
    IN  /\ last' = Outcome("sign", caller, err, g, <<>>)
        /\ IF err = "ok"
           THEN /\ holders' = OptInEffect(g.sender)
                /\ appBalance' = appBalance - 1000
                /\ UNCHANGED <<round, contractVars, asset, payouts,
                               reconfigs, extends, donations>>
           ELSE UNCHANGED <<round, contractVars, ledgerVars, extends, donations>>

\* sign() followed by the second transaction of the group
Sign(caller, g) ==
    LET err == SignErr(caller, g)
    IN  /\ last' = Outcome("sign", caller, err, g, <<>>)
        /\ IF err = "ok"
           THEN /\ holders' = OptInEffect(g.sender)
                /\ UNCHANGED <<round, contractVars, asset, appBalance, payouts,
                               reconfigs, extends, donations>>
           ELSE UNCHANGED <<round, contractVars, ledgerVars, extends, donations>>

SignStep ==
    \E caller \in Accounts : \E g \in SignGroups(caller) : Sign(caller, g)

\* An account opts in to the Signature Asset with a transaction of its own,
\* outside any group (algorand.send.assetOptIn).
AssetOptIn(acct) ==
    /\ asset.exists
    /\ holders' = OptInEffect(acct)
    /\ last' = Outcome("assetOptIn", acct, "ok", 0, <<>>)
    /\ UNCHANGED <<round, contractVars, asset, appBalance, payouts,
                   reconfigs, extends, donations>>

AssetOptInStep ==
    \E acct \in Accounts : AssetOptIn(acct)

\* ----------------------------------------------------------------- extend
ExtendRounds ==
    {r \in {endRound - 1, endRound, endRound + 1} :
        /\ r >= 0
        /\ r <= MAX_UINT64
        /\ r > endRound => extends < MaxExtends}

\* ExtendErr without the assertion on the new end round
ExtendErrAnyRound(caller, newEndRound) ==
    IF ~initialized THEN "Not initialized"
    ELSE IF caller # Reserve THEN "Only author can extend"
    ELSE IF finalized THEN "Opinion already finalized"
    ELSE "ok"

\* ExtendErr accepting a new end round equal to the current one
ExtendErrNotStrict(caller, newEndRound) ==
    IF ~initialized THEN "Not initialized"
    ELSE IF caller # Reserve THEN "Only author can extend"
    ELSE IF finalized THEN "Opinion already finalized"
    ELSE IF ~(newEndRound >= endRound) THEN "New end must be greater"
    ELSE "ok"

\* ExtendErr without the 'Opinion already finalized' assertion
ExtendErrNoFinalizedGuard(caller, newEndRound) ==
    IF ~initialized THEN "Not initialized"
    ELSE IF caller # Reserve THEN "Only author can extend"
    ELSE IF ~(newEndRound > endRound) THEN "New end must be greater"
    ELSE "ok"

ExtendErr(caller, newEndRound) ==
    IF ~initialized THEN "Not initialized"
    ELSE IF caller # Reserve THEN "Only author can extend"
    ELSE IF finalized THEN "Opinion already finalized"
    ELSE IF ~(newEndRound > endRound) THEN "New end must be greater"
    ELSE "ok"

\* Extend restarting the opinion at the current round
ExtendMovesStart(caller, newEndRound) ==
    LET err == ExtendErr(caller, newEndRound)
    IN  /\ last' = Outcome("extend", caller, err, newEndRound, <<>>)
        /\ IF err = "ok"
           THEN /\ endRound' = newEndRound
                /\ extends' = extends + 1
                /\ startRound' = round
                /\ UNCHANGED <<round, initialized, finalized, asaId,
                               gateVars, opinionText, ledgerVars, donations>>
           ELSE UNCHANGED <<round, contractVars, ledgerVars, extends, donations>>

Extend(caller, newEndRound) ==
    LET err == ExtendErr(caller, newEndRound)
    IN  /\ last' = Outcome("extend", caller, err, newEndRound, <<>>)
        /\ IF err = "ok"
           THEN /\ endRound' = newEndRound
                /\ extends' = extends + 1
                /\ UNCHANGED <<round, initialized, finalized, startRound, asaId,
                               gateVars, opinionText, ledgerVars, donations>>
           ELSE UNCHANGED <<round, contractVars, ledgerVars, extends, donations>>

ExtendStep ==
    \E caller \in Accounts, newEndRound \in ExtendRounds : Extend(caller, newEndRound)

\* --------------------------------------------------------------- finalize
\* FinalizeErr without the 'Opinion already finalized' assertion
FinalizeErrNoFinalizedGuard(caller) ==
    IF ~initialized THEN "Not initialized"
    ELSE IF ~(round > endRound) THEN "Opinion still active"
    ELSE IF asset.manager # AppAddress THEN "asset config not by manager"
    ELSE IF appBalance < MinBalance THEN "- would result negative"
    ELSE "ok"

\* FinalizeErr accepting the end round itself
FinalizeErrAtEndRound(caller) ==
    IF ~initialized THEN "Not initialized"
    ELSE IF ~(round >= endRound) THEN "Opinion still active"
    ELSE IF finalized THEN "Opinion already finalized"
    ELSE IF asset.manager # AppAddress THEN "asset config not by manager"
    ELSE IF appBalance < MinBalance THEN "- would result negative"
    ELSE "ok"

FinalizeErr(caller) ==
    IF ~initialized THEN "Not initialized"
    ELSE IF ~(round > endRound) THEN "Opinion still active"
    ELSE IF finalized THEN "Opinion already finalized"
    ELSE IF asset.manager # AppAddress THEN "asset config not by manager"
    ELSE IF appBalance < MinBalance THEN "- would result negative"
    ELSE "ok"

\* Reward as the whole balance
RewardWholeBalance == appBalance

\* balance - minBalance
Reward == appBalance - MinBalance

\* Finalize clearing the initialized flag
FinalizeClearsInitialized(caller) ==
    LET err == FinalizeErr(caller)
        reward == Reward
    IN  /\ last' = Outcome("finalize", caller, err, 0, <<>>)
        /\ IF err = "ok"
           THEN /\ asset' = [asset EXCEPT !.manager = ZeroAddress,
                                          !.reserve = asset.reserve,
                                          !.freeze = ZeroAddress,
                                          !.clawback = ZeroAddress]
                /\ reconfigs' = reconfigs + 1
                /\ finalized' = TRUE
                /\ IF reward > 0
                   THEN /\ payouts' = Append(payouts, [to |-> caller, amount |-> reward])
                        /\ appBalance' = appBalance - reward
                   ELSE UNCHANGED <<payouts, appBalance>>
                /\ initialized' = FALSE
                /\ UNCHANGED <<round, startRound, endRound, asaId,
                               gateVars, opinionText, holders, extends, donations>>
           ELSE UNCHANGED <<round, contractVars, ledgerVars, extends, donations>>

\* Finalize leaving the asset as it is
FinalizeKeepsManager(caller) ==
    LET err == FinalizeErr(caller)
        reward == Reward
    IN  /\ last' = Outcome("finalize", caller, err, 0, <<>>)
        /\ IF err = "ok"
           THEN /\ asset' = asset
                /\ reconfigs' = reconfigs + 1
                /\ finalized' = TRUE
                /\ IF reward > 0
                   THEN /\ payouts' = Append(payouts, [to |-> caller, amount |-> reward])
                        /\ appBalance' = appBalance - reward
                   ELSE UNCHANGED <<payouts, appBalance>>
                /\ UNCHANGED <<round, initialized, startRound, endRound, asaId,
                               gateVars, opinionText, holders, extends, donations>>
           ELSE UNCHANGED <<round, contractVars, ledgerVars, extends, donations>>

\* Finalize reconfiguring the asset without passing its reserve
FinalizeClearsReserve(caller) ==
    LET err == FinalizeErr(caller)
        reward == Reward
    IN  /\ last' = Outcome("finalize", caller, err, 0, <<>>)
        /\ IF err = "ok"
           THEN /\ asset' = [asset EXCEPT !.manager = ZeroAddress,
                                          !.reserve = ZeroAddress,
                                          !.freeze = ZeroAddress,
                                          !.clawback = ZeroAddress]
                /\ reconfigs' = reconfigs + 1
                /\ finalized' = TRUE
                /\ IF reward > 0
                   THEN /\ payouts' = Append(payouts, [to |-> caller, amount |-> reward])
                        /\ appBalance' = appBalance - reward
                   ELSE UNCHANGED <<payouts, appBalance>>
                /\ UNCHANGED <<round, initialized, startRound, endRound, asaId,
                               gateVars, opinionText, holders, extends, donations>>
           ELSE UNCHANGED <<round, contractVars, ledgerVars, extends, donations>>

\* Finalize that does not set the finalized flag
FinalizeLeavesFlag(caller) ==
    LET err == FinalizeErr(caller)
        reward == Reward
    IN  /\ last' = Outcome("finalize", caller, err, 0, <<>>)
        /\ IF err = "ok"
           THEN /\ asset' = [asset EXCEPT !.manager = ZeroAddress,
                                          !.reserve = asset.reserve,
                                          !.freeze = ZeroAddress,
                                          !.clawback = ZeroAddress]
                /\ reconfigs' = reconfigs + 1
                /\ IF reward > 0
                   THEN /\ payouts' = Append(payouts, [to |-> caller, amount |-> reward])
                        /\ appBalance' = appBalance - reward
                   ELSE UNCHANGED <<payouts, appBalance>>
                /\ UNCHANGED <<round, initialized, finalized, startRound, endRound,
                               asaId, gateVars, opinionText, holders, extends,
                               donations>>
           ELSE UNCHANGED <<round, contractVars, ledgerVars, extends, donations>>

Finalize(caller) ==
    LET err == FinalizeErr(caller)
        reward == Reward
    IN  /\ last' = Outcome("finalize", caller, err, 0, <<>>)
        /\ IF err = "ok"
           THEN /\ asset' = [asset EXCEPT !.manager = ZeroAddress,
                                          !.reserve = asset.reserve,
                                          !.freeze = ZeroAddress,
                                          !.clawback = ZeroAddress]
                /\ reconfigs' = reconfigs + 1
                /\ finalized' = TRUE
                /\ IF reward > 0
                   THEN /\ payouts' = Append(payouts, [to |-> caller, amount |-> reward])
                        /\ appBalance' = appBalance - reward
                   ELSE UNCHANGED <<payouts, appBalance>>
                /\ UNCHANGED <<round, initialized, startRound, endRound, asaId,
                               gateVars, opinionText, holders, extends, donations>>
           ELSE UNCHANGED <<round, contractVars, ledgerVars, extends, donations>>

FinalizeStep ==
    \E caller \in Accounts : Finalize(caller)

\* ---------------------------------------------------------------- getInfo
\* Reading .value of a slot that holds no value fails.
GetInfoErr ==
    IF startRound = NoValue \/ endRound = NoValue \/ asaId = NoValue
    THEN "check GlobalState exists"
    ELSE "ok"

GetInfo(caller) ==
    LET err == GetInfoErr
    IN  /\ last' = Outcome("getInfo", caller, err, 0,
                           IF err = "ok"
                           THEN <<startRound, endRound, asaId, finalized, initialized>>
                           ELSE <<>>)
        /\ UNCHANGED <<round, contractVars, ledgerVars, extends, donations>>

GetInfoStep ==
    \E caller \in Accounts : GetInfo(caller)

\* ----------------------------------------------------------------- ledger
\* A plain payment to the instance account (no application call).
DonationAmounts == {150000}

Pay(from, amount) ==
    /\ donations < MaxDonations
    /\ appBalance' = appBalance + amount
    /\ donations' = donations + 1
    /\ last' = Outcome("pay", from, "ok", amount, <<>>)
    /\ UNCHANGED <<round, contractVars, asset, holders, payouts, reconfigs, extends>>

PayStep ==
    \E from \in {"carol"}, amount \in DonationAmounts : Pay(from, amount)

\* The round counter advances.  Rounds in which nothing can change are
\* skipped: the instance is initialized in the round it is created in, the
\* counter then goes to end_round in one step and steps one by one from there.
NextRounds ==
    IF ~initialized
    THEN {}
    ELSE {r \in {round + 1, endRound} :
            /\ r > round
            /\ r <= MAX_UINT64
            /\ r <= endRound + MaxOverrun
            /\ (r = round + 1 => (round >= endRound \/ r = endRound))}

Tick ==
    /\ \E r \in NextRounds : round' = r
    /\ UNCHANGED <<contractVars, ledgerVars, extends, donations, last>>

Next ==
    \/ InitializeStep
    \/ WriteChunkStep
    \/ SetGatesStep
    \/ SignStep
    \/ AssetOptInStep
    \/ ExtendStep
    \/ FinalizeStep
    \/ GetInfoStep
    \/ PayStep
    \/ Tick

Spec == Init /\ [][Next]_vars

\* ===================================================== content writes
\* An opinion with a content box of TextSize bytes, and every write of up to
\* two bytes from TextBytes at every offset up to the box's end.
TextSize == 3
TextBytes == {0, 1, 2}
TextWrites ==
    (0 .. TextSize) \X UNION {[1 .. n -> TextBytes] : n \in 0 .. 2}

\* The state initialize leaves when alice creates the opinion with content
\* size TextSize.
TextInit ==
    /\ round = CreationRound
    /\ initialized = TRUE
    /\ finalized = FALSE
    /\ startRound = CreationRound
    /\ endRound = CreationRound + MIN_DURATION
    /\ asaId = CreatedAssetId
    /\ gFlags = NoValue
    /\ gBalMin = NoValue
    /\ gBalMax = NoValue
    /\ gMinAge = NoValue
    /\ opinionText = BoxCreate(TextSize)
    /\ gateHold = NoBox
    /\ gateDeny = NoBox
    /\ gateNfd = NoBox
    /\ asset = [exists |-> TRUE, total |-> 0, decimals |-> 0,
                manager |-> AppAddress, reserve |-> "alice",
                freeze |-> ZeroAddress, clawback |-> ZeroAddress,
                nameLen |-> 32, urlLen |-> 96]
    /\ holders = {}
    /\ appBalance = MIN_FUNDING
    /\ payouts = <<>>
    /\ reconfigs = 0
    /\ extends = 0
    /\ donations = 0
    /\ last = Outcome("initialize", "alice", "ok",
                      [group |-> GoodInitGroup("alice"),
                       args |-> [titleLen |-> 32, textSize |-> TextSize,
                                 duration |-> MIN_DURATION, typeLen |-> 32,
                                 typeZero |-> FALSE, urlLen |-> 96]],
                      CreatedAssetId)

TextWriteStep ==
    \E caller \in Accounts, w \in TextWrites : WriteChunk(caller, w[1], w[2])

TextNext == TextWriteStep \/ Tick \/ FinalizeStep

SpecText == TextInit /\ [][TextNext]_vars

\* ==================================================== fair scheduling
\* An initialized opinion under fair scheduling: the round counter keeps
\* advancing and finalize keeps being attempted, while the author extends
\* (finitely often: MaxExtends), gates are declared and payments arrive.
LiveInit == TextInit

LiveNext ==
    \/ ExtendStep
    \/ SetGatesStep
    \/ PayStep
    \/ FinalizeStep
    \/ Tick

SpecLive ==
    LiveInit /\ [][LiveNext]_vars /\ WF_vars(Tick) /\ WF_vars(FinalizeStep)

\* ============================================== the client's gate list codec
\* Longest identifier list explored.
MaxIds == 3
\* Identifiers explored (TLC integers are 32 bits wide, so their upper four
\* bytes are zero).
CodecIds == {0, 255, 256, 16909060, 2147483647}
IdLists == UNION {[1 .. n -> CodecIds] : n \in 1 .. MaxIds}

\* The inner loop of packUint64Array: the low byte goes to the last place,
\* the value is shifted right by 8 bits, n times.
RECURSIVE EntryBytes(_, _)
EntryBytes(val, n) ==
    IF n = 0 THEN <<>> ELSE Append(EntryBytes(val \div 256, n - 1), val % 256)

\* packUint64Array writing each entry with its low byte first
RECURSIVE packUint64ArrayLowFirst(_)
packUint64ArrayLowFirst(ids) ==
    IF ids = <<>> THEN <<>>
    ELSE [j \in 1 .. 8 |-> EntryBytes(Head(ids), 8)[9 - j]]
         \o packUint64ArrayLowFirst(Tail(ids))

RECURSIVE packUint64Array(_)
packUint64Array(ids) ==
    IF ids = <<>> THEN <<>>
    ELSE EntryBytes(Head(ids), 8) \o packUint64Array(Tail(ids))

\* The inner loop of unpackUint64Array over the 8 bytes from offset i
\* (0-based): val = (val << 8) | data[i + j]
RECURSIVE EntryValue(_, _, _, _)
EntryValue(data, i, j, val) ==
    IF j = 8 THEN val ELSE EntryValue(data, i, j + 1, val * 256 + data[i + j + 1])

\* The outer loop: for (i = 0; i + 8 <= data.length; i += 8)
RECURSIVE UnpackFrom(_, _)
UnpackFrom(data, i) ==
    IF i + 8 <= Len(data)
    THEN <<EntryValue(data, i, 0, 0)>> \o UnpackFrom(data, i + 8)
    ELSE <<>>

unpackUint64Array(data) == UnpackFrom(data, 0)

\* The client packs a list of identifiers (for setGates).
PackIds(ids) ==
    /\ last' = Outcome("packUint64Array", "client", "ok", ids, packUint64Array(ids))
    /\ UNCHANGED <<round, contractVars, ledgerVars, extends, donations>>

PackStep == \E ids \in IdLists : PackIds(ids)

\* The client unpacks the bytes it has packed (as read back from a gate box).
UnpackData(data) ==
    /\ last' = Outcome("unpackUint64Array", "client", "ok", data,
                       unpackUint64Array(data))
    /\ UNCHANGED <<round, contractVars, ledgerVars, extends, donations>>

UnpackStep ==
    /\ last.op = "packUint64Array"
    /\ UnpackData(last.ret)

CodecInit == Init /\ round = CreationRound

CodecNext == PackStep \/ UnpackStep

SpecCodec == CodecInit /\ [][CodecNext]_vars

\* ===================================================== gate declarations
\* An initialized opinion and declarations over every gate bit: flag words
\* with no bit, each list bit, the scalar bits, the identity bit, all seven
\* bits, and bits above the seventh; lists as the client packs them, empty
\* and misaligned ones; identity roots empty and "dao".
GateFlags == {0, 1, 2, 44, 64, 127, 128, 255}
GateLists == {<<>>, Blob(7), packUint64Array(<<256>>),
              packUint64Array(<<255, 16909060>>)}
GateDecls ==
    [flags : GateFlags, balMin : {1000}, balMax : {2000}, minAge : {10},
     asaHold : GateLists, asaDeny : {packUint64Array(<<256>>)},
     nfdRoot : {<<100, 97, 111>>}]
    \cup [flags : {2, 127}, balMin : {1000}, balMax : {2000}, minAge : {10},
          asaHold : {packUint64Array(<<256>>)},
          asaDeny : {<<>>, Blob(7), packUint64Array(<<255, 16909060>>)},
          nfdRoot : {<<100, 97, 111>>}]
    \cup [flags : {64, 127}, balMin : {1000}, balMax : {2000}, minAge : {10},
          asaHold : {packUint64Array(<<256>>)},
          asaDeny : {packUint64Array(<<256>>)}, nfdRoot : {<<>>}]

GateInit == TextInit

GateDeclStep ==
    \E caller \in Accounts, a \in GateDecls : SetGates(caller, a)

GateNext == GateDeclStep \/ Tick \/ FinalizeStep

SpecGates == GateInit /\ [][GateNext]_vars

\* ===================================================== the creation bundle
\* The client's handleSubmit: it splits the text into chunks and sends one
\* atomic group: payment, initialize, one writeChunk per chunk.
CHUNK_SIZE == 2000
\* Math.floor((24 * 60 * 60) / 3.3)
RoundsPerDay == 26181
\* Most transactions a group can hold
MaxGroupSize == 16

\* Texts by length and content: byte i (1-based) is (i * p) % 256.  Texts
\* of up to three chunks, and the longest text whose group fits and the
\* shortest whose group does not.
TextOf(n, p) == [i \in 1 .. n |-> (i * p) % 256]
ShortTexts == {TextOf(n, p) : n \in {1, 1999, 2000, 2001, 4000, 4001}, p \in {1, 7}}
LongTexts == {TextOf(n, 7) : n \in {28000, 28001}}

\* The form as its inputs allow it to be submitted: a title of 1 to 32
\* bytes, a text of 1 to 32768 bytes, one day or more, a url of at most 96
\* bytes (the opinion type is always 32 bytes and not all zero)
BundleForms ==
    [titleLen : {1, 32}, text : ShortTexts, durationDays : {1, 7},
     urlLen : {0, 96}]
    \cup [titleLen : {32}, text : LongTexts, durationDays : {7}, urlLen : {0}]

\* textBytes.slice(from, to)
Slice(textBytes, from, to) ==
    SubSeq(textBytes, from + 1, IF to < Len(textBytes) THEN to ELSE Len(textBytes))

\* Chunks cut one byte short of CHUNK_SIZE
RECURSIVE ChunksFromShort(_, _)
ChunksFromShort(textBytes, i) ==
    IF i < Len(textBytes)
    THEN <<[kind |-> "writeChunk", offset |-> i,
            data |-> Slice(textBytes, i, i + CHUNK_SIZE - 1)]>>
         \o ChunksFromShort(textBytes, i + CHUNK_SIZE)
    ELSE <<>>

\* for (let i = 0; i < textBytes.length; i += CHUNK_SIZE) chunks.push(...)
RECURSIVE ChunksFrom(_, _)
ChunksFrom(textBytes, i) ==
    IF i < Len(textBytes)
    THEN <<[kind |-> "writeChunk", offset |-> i,
            data |-> Slice(textBytes, i, i + CHUNK_SIZE)]>>
         \o ChunksFrom(textBytes, i + CHUNK_SIZE)
    ELSE <<>>

Chunks(textBytes) == ChunksFrom(textBytes, 0)

\* The arguments of the group's initialize call
BundleArgs(form) ==
    [titleLen |-> form.titleLen, textSize |-> Len(form.text),
     duration |-> form.durationDays * RoundsPerDay,
     typeLen |-> 32, typeZero |-> FALSE, urlLen |-> form.urlLen]

\* The group: payment + initialize + writeChunk(s)
BundleGroup(caller, form) ==
    <<[kind |-> "pay", sender |-> caller, receiver |-> AppAddress,
       amount |-> MIN_FUNDING],
      [kind |-> "initialize", args |-> BundleArgs(form)]>>
    \o Chunks(form.text)

\* The first transaction of the group as initialize sees it
BundlePayment(group) ==
    [size |-> Len(group), kind |-> group[1].kind, receiver |-> group[1].receiver,
     amount |-> group[1].amount, sender |-> group[1].sender]

\* The writeChunk calls of a group, in order from the k-th transaction, on
\* the box the earlier transactions of the group have left; each passes its
\* guards (the opinion is initialized by then, not finalized, and the caller
\* is the reserve) unless its range leaves the box.
RECURSIVE BundleWritesErr(_, _, _)
BundleWritesErr(group, k, box) ==
    IF k > Len(group) THEN "ok"
    ELSE IF ~BoxReplaceOk(box, group[k].offset, group[k].data)
         THEN "box replace out of range"
    ELSE BundleWritesErr(group, k + 1,
                         BoxReplace(box, group[k].offset, group[k].data))

RECURSIVE BundleWrites(_, _, _)
BundleWrites(group, k, box) ==
    IF k > Len(group) THEN box
    ELSE BundleWrites(group, k + 1,
                      BoxReplace(box, group[k].offset, group[k].data))

\* The first failure of the group, or "ok"; funded: the sender can pay the
\* group's payment and fees
BundleErr(group, funded) ==
    IF Len(group) > MaxGroupSize THEN "group too large"
    ELSE IF ~funded THEN "overspend"
    ELSE IF InitializeErr(BundlePayment(group), group[2].args) # "ok"
         THEN InitializeErr(BundlePayment(group), group[2].args)
    ELSE BundleWritesErr(group, 3, BoxCreate(group[2].args.textSize))

\* group.send(): the group commits as a whole or not at all
HandleSubmit(caller, form, funded) ==
    LET group == BundleGroup(caller, form)
        err == BundleErr(group, funded)
        a == group[2].args
    IN  IF err = "ok"
        THEN /\ startRound' = round
             /\ endRound' = round + a.duration
             /\ opinionText' = BundleWrites(group, 3, BoxCreate(a.textSize))
             /\ asset' = [exists |-> TRUE, total |-> 0, decimals |-> 0,
                          manager |-> AppAddress, reserve |-> caller,
                          freeze |-> ZeroAddress, clawback |-> ZeroAddress,
                          nameLen |-> a.titleLen, urlLen |-> a.urlLen]
             /\ asaId' = CreatedAssetId
             /\ initialized' = TRUE
             /\ appBalance' = appBalance + group[1].amount
             /\ last' = Outcome("handleSubmit", caller, "ok",
                                [text |-> form.text, group |-> group,
                                 funded |-> funded], CreatedAssetId)
             /\ UNCHANGED <<round, finalized, gateVars, holders, payouts,
                            reconfigs, extends, donations>>
        ELSE /\ last' = Outcome("handleSubmit", caller, err,
                                [text |-> form.text, group |-> group,
                                 funded |-> funded], 0)
             /\ UNCHANGED <<round, contractVars, ledgerVars, extends, donations>>

\* The client creates a fresh instance for every submission: the group is
\* sent to the instance createApplication has just made.
HandleSubmitStep ==
    /\ ~initialized /\ last.op = "createApplication"
    /\ \E form \in BundleForms, funded \in BOOLEAN :
          HandleSubmit("alice", form, funded)

BundleInit == Init /\ round = CreationRound

BundleNext == HandleSubmitStep \/ GetInfoStep

SpecBundle == BundleInit /\ [][BundleNext]_vars

\* ================================================================ claims
\* The operations that write contract state.
MutatingOps == {"initialize", "writeChunk", "setGates", "sign", "extend", "finalize"}

\* A step that is an attempt of the operation op: every operation records
\* its outcome in last, and only the clock leaves last alone.
Attempt(op) == last'.op = op /\ round' = round
Succeeds == last'.err = "ok"

\* C1 (as claimed): once finalized, every call of a mutating operation
\* (initialize, writeChunk, setGates, sign, extend, finalize) fails and leaves
\* the whole state unchanged.
C1_FinalizedIsTerminal ==
    [][(finalized /\ \E op \in MutatingOps : Attempt(op))
         => (~Succeeds /\ UNCHANGED stateVars)]_vars

\* C2 (as claimed): an account becomes a holder of the Signature Asset only
\* in a group whose sign call passed all its guards, hence only at a round
\* <= end_round and before finalization, and the new holder is the caller.
C2_HoldersOnlyBySign ==
    [][holders' # holders
         => /\ last'.op = "sign" /\ Succeeds
            /\ initialized /\ round <= endRound /\ ~finalized
            /\ holders' = holders \cup {last'.caller}]_vars

\* C3: finalize race.  Whatever finalize calls are submitted in whatever
\* order, the first one processed after expiry succeeds, it alone is paid
\* and reconfigures the asset, and every later one fails with 'Opinion
\* already finalized' and changes nothing.
C3_FinalizeRace ==
    [][Attempt("finalize")
         => IF finalized
            THEN /\ last'.err = "Opinion already finalized"
                 /\ UNCHANGED stateVars
            ELSE IF initialized /\ round > endRound
            THEN /\ Succeeds /\ finalized'
                 /\ reconfigs = 0 /\ reconfigs' = 1
                 /\ payouts = <<>> /\ Len(payouts') <= 1
                 /\ \A i \in DOMAIN payouts' : payouts'[i].to = last'.caller
            ELSE ~Succeeds /\ UNCHANGED stateVars]_vars

\* C3 witness: a second account's finalize was rejected after the first
\* account's finalize had been paid.
C3_Witness ==
    /\ finalized /\ Len(payouts) = 1 /\ reconfigs = 1
    /\ last.op = "finalize" /\ last.err = "Opinion already finalized"
    /\ last.caller # payouts[1].to

\* C4: once initialized, every initialize fails with 'Already initialized'
\* and changes nothing; start_round, asa_id, the content box and the asset
\* are created once.
C4_InitializeOnce ==
    [][/\ (Attempt("initialize") /\ initialized)
            => (last'.err = "Already initialized" /\ UNCHANGED stateVars)
       /\ initialized
            => /\ initialized' /\ startRound' = startRound /\ asaId' = asaId
               /\ opinionText'.exists /\ opinionText'.size = opinionText.size
               /\ asset'.exists
       /\ (Attempt("initialize") /\ Succeeds) => ~initialized /\ ~asset.exists]_vars

\* C4 witness: an initialize was rejected on an initialized instance.
C4_Witness ==
    /\ initialized
    /\ last.op = "initialize" /\ last.err = "Already initialized"

\* C5: after initialize end_round never decreases, and it increases only in
\* a successful extend.
C5_EndRoundNonDecreasing ==
    [][initialized
         => /\ endRound' >= endRound
            /\ endRound' > endRound => (last'.op = "extend" /\ Succeeds)]_vars

\* C5 witness: an extend has raised end_round, and a later extend to a
\* lower round was attempted.
C5_Witness ==
    /\ extends >= 1 /\ endRound > startRound + MIN_DURATION
    /\ last.op = "extend" /\ last.arg < endRound

\* The guards of sign, as the specification lists them.
SignGuards(caller, g) ==
    /\ initialized /\ round <= endRound /\ ~finalized
    /\ g.size = 2 /\ g.kind = "axfer" /\ g.xferAsset = asaId
    /\ g.amount = 0 /\ g.sender = caller /\ g.receiver = caller

\* C6: sign succeeds only if the instance is initialized, round <= end_round,
\* not finalized, and the group is exactly the call plus a zero-amount
\* transfer of asa_id from the caller to the caller; otherwise the group
\* aborts and nothing is committed.
C6_SignGuards ==
    [][Attempt("sign")
         => IF SignGuards(last'.caller, last'.arg)
            THEN Succeeds => last'.caller \in holders'
            ELSE ~Succeeds /\ UNCHANGED stateVars]_vars

\* C6 witness: a group with amount 1 was rejected while the opinion was
\* active, after another group had registered a holder.
C6_Witness ==
    /\ initialized /\ ~finalized /\ round <= endRound /\ holders # {}
    /\ last.op = "sign" /\ last.err = "Must be opt-in (amount 0)"
    /\ last.arg.amount = 1

\* C7: finalize succeeds exactly when initialized, round > end_round and not
\* finalized, whoever calls and whatever was written or declared; at a round
\* <= end_round it fails with 'Opinion still active' and changes nothing.
C7_FinalizeGuards ==
    [][Attempt("finalize")
         => /\ Succeeds <=> (initialized /\ round > endRound /\ ~finalized)
            /\ (initialized /\ round <= endRound)
                 => (last'.err = "Opinion still active" /\ UNCHANGED stateVars)]_vars

\* C7 witness: a non-author finalized an opinion whose content box was never
\* written and whose gates were never declared.
C7_Witness ==
    /\ last.op = "finalize" /\ last.err = "ok" /\ last.caller # Reserve
    /\ opinionText.nz = EmptyBytes /\ gFlags = NoValue

\* C8: a successful finalize sets the asset's manager to the zero address and
\* keeps its reserve, sets finalized, pays the caller exactly balance minus
\* minimum balance when that is positive, leaves the balance at the minimum
\* balance, and keeps start_round, end_round and asa_id.
C8_FinalizeEffect ==
    [][(Attempt("finalize") /\ Succeeds)
         => /\ asset'.manager = ZeroAddress /\ asset'.reserve = asset.reserve
            /\ finalized'
            /\ appBalance >= MinBalance
            /\ IF appBalance - MinBalance > 0
               THEN payouts' = Append(payouts, [to |-> last'.caller,
                                                amount |-> appBalance - MinBalance])
               ELSE payouts' = payouts
            /\ appBalance' = MinBalance'
            /\ appBalance' = appBalance - (appBalance - MinBalance)
            /\ UNCHANGED <<startRound, endRound, asaId>>]_vars

\* C8 witness: finalize has paid out after a donation and a gate declaration
\* with a box.
C8_Witness ==
    /\ last.op = "finalize" /\ last.err = "ok"
    /\ Len(payouts) = 1 /\ payouts[1].amount = MIN_FUNDING + 150000 - MinBalance
    /\ gateHold.exists /\ appBalance = MinBalance /\ asset.manager = ZeroAddress

\* C9: extend(new_end_round) succeeds exactly when initialized, caller =
\* reserve, not finalized and new_end_round > end_round; then end_round =
\* new_end_round and nothing else changes; a non-reserve caller fails with
\* 'Only author can extend'; a failed extend changes nothing.
C9_ExtendGuards ==
    [][Attempt("extend")
         => /\ Succeeds <=> /\ initialized /\ last'.caller = asset.reserve
                            /\ ~finalized /\ last'.arg > endRound
            /\ Succeeds => /\ endRound' = last'.arg
                           /\ UNCHANGED <<initialized, finalized, startRound, asaId,
                                          gateVars, opinionText, ledgerVars>>
            /\ ~Succeeds => UNCHANGED stateVars
            /\ (initialized /\ last'.caller # asset.reserve)
                 => last'.err = "Only author can extend"]_vars

\* C9 witness: extend(end_round + 1) succeeded.
C9_Witness ==
    /\ last.op = "extend" /\ last.err = "ok"
    /\ last.caller = Reserve /\ endRound = startRound + MIN_DURATION + 1
    /\ last.arg = endRound

\* C10 (as claimed): extend succeeds only while the opinion is Active, so an
\* opinion whose round has exceeded end_round is never Active again.
C10_NoRevival ==
    [][/\ (Attempt("extend") /\ Succeeds) => round <= endRound
       /\ (initialized /\ round > endRound) => round' > endRound']_vars

\* The argument faults of initialize: payment below the minimum funding,
\* duration below the minimum, title over 32 bytes, content size 0 or over
\* 32768, type tag not 32 bytes or all zero, url over 96 bytes.
InitFaulty(x) ==
    \/ x.group.amount < MIN_FUNDING
    \/ x.args.duration < MIN_DURATION
    \/ x.args.titleLen > 32
    \/ x.args.textSize = 0 \/ x.args.textSize > 32768
    \/ x.args.typeLen # 32 \/ x.args.typeZero
    \/ x.args.urlLen > 96

\* C11: initialize fails whenever its payment is below 20,000,000, its
\* duration below 25,000, its title longer than 32 bytes, its content size 0
\* or above 32768, its type tag not 32 bytes or all zero, or its url longer
\* than 96 bytes (so with funding 19,999,999 and duration 25,000, and with
\* funding 20,000,000 and duration 24,999); the instance stays uninitialized
\* with no box, no asset and no funds received.
C11_InitializeRejects ==
    [][(Attempt("initialize") /\ InitFaulty(last'.arg))
         => /\ ~Succeeds /\ UNCHANGED stateVars
            /\ ~initialized
                 => /\ ~initialized' /\ ~opinionText'.exists /\ ~asset'.exists
                    /\ appBalance' = appBalance]_vars

\* C11 witness: funding 19,999,999 with duration 25,000 was rejected on the
\* uninitialized instance, which holds no box, no asset and no funds.
C11_Witness ==
    /\ last.op = "initialize" /\ last.err = "Minimum 20 ALGO required"
    /\ last.arg.group.amount = MIN_FUNDING - 1
    /\ last.arg.args.duration = MIN_DURATION
    /\ ~initialized /\ ~opinionText.exists /\ ~asset.exists /\ appBalance = 0

\* C12: a successful initialize at round r with duration d and content size
\* s sets start_round = r and end_round = r + d, creates a content box of
\* exactly s bytes and a Signature Asset with total 0, decimals 0, manager =
\* the instance and reserve = the caller, stores the asset's identifier in
\* asa_id and returns it, and leaves initialized true and finalized false.
C12_InitializeEffect ==
    [][(Attempt("initialize") /\ Succeeds)
         => /\ startRound' = round
            /\ endRound' = round + last'.arg.args.duration
            /\ endRound' - startRound' = last'.arg.args.duration
            /\ ~opinionText.exists
            /\ opinionText'.exists /\ opinionText'.size = last'.arg.args.textSize
            /\ ~asset.exists
            /\ asset'.exists /\ asset'.total = 0 /\ asset'.decimals = 0
            /\ asset'.manager = AppAddress /\ asset'.reserve = last'.caller
            /\ asaId' = CreatedAssetId /\ last'.ret = asaId'
            /\ initialized' /\ ~finalized']_vars

\* C12 witness: initialize succeeded at round 1000 with duration 25,000 and
\* content size 2.
C12_Witness ==
    /\ last.op = "initialize" /\ last.err = "ok" /\ last.ret = asaId
    /\ round = CreationRound /\ startRound = CreationRound
    /\ endRound = CreationRound + MIN_DURATION
    /\ opinionText.exists /\ opinionText.size = 2
    /\ asset.exists /\ asset.reserve = last.caller /\ asset.manager = AppAddress
    /\ initialized /\ ~finalized

\* C13 (as claimed): initialize succeeds only when its caller is the sender
\* of the payment in its group, so the asset's reserve is the account that
\* funded the instance.
C13_CallerIsFunder ==
    [][(Attempt("initialize") /\ Succeeds)
         => /\ last'.arg.group.sender = last'.caller
            /\ asset'.reserve = last'.arg.group.sender]_vars

\* The operations reserved to the author, and the message each gives a
\* caller that is not the asset's reserve.
AuthorOps == {"writeChunk", "extend", "setGates"}
NotAuthor(op) ==
    CASE op = "writeChunk" -> "Only author can write"
      [] op = "extend" -> "Only author can extend"
      [] op = "setGates" -> "Only author can set gates"

\* C14 (as claimed): writeChunk, extend and setGates succeed only when the
\* caller is the asset's reserve; a call by any other account fails with the
\* operation's 'Only author' error and changes nothing, in every lifecycle
\* state.
C14_AuthorOnlyAsClaimed ==
    [][\A op \in AuthorOps :
         Attempt(op)
           => /\ Succeeds => last'.caller = asset.reserve
              /\ last'.caller # asset.reserve
                   => (last'.err = NotAuthor(op) /\ UNCHANGED stateVars)]_vars

\* C14 (amended): writeChunk, extend and setGates succeed only when the
\* caller is the asset's reserve; a call by any other account fails and
\* changes nothing in every lifecycle state.  Its error is 'Not initialized'
\* on an uninitialized instance, 'Opinion already finalized' for writeChunk
\* on a finalized one, and the operation's 'Only author' error otherwise.
C14_AuthorOnly ==
    [][\A op \in AuthorOps :
         Attempt(op)
           => /\ Succeeds => last'.caller = asset.reserve
              /\ last'.caller # asset.reserve
                   => /\ ~Succeeds /\ UNCHANGED stateVars
                      /\ last'.err =
                           IF ~initialized THEN "Not initialized"
                           ELSE IF op = "writeChunk" /\ finalized
                           THEN "Opinion already finalized"
                           ELSE NotAuthor(op)]_vars

\* C14 witness: on a finalized opinion an account that is not the reserve
\* called extend and was rejected as not the author.
C14_Witness ==
    /\ initialized /\ finalized
    /\ last.op = "extend" /\ last.caller # Reserve
    /\ last.err = "Only author can extend"

\* C15 (as claimed): setGates succeeds at most once; after a successful
\* setGates every later setGates fails with 'Gates already set', and the
\* stored flag word, the gate scalars and the gate boxes never change again.
C15_GatesSetOnceAsClaimed ==
    [][/\ (Attempt("setGates") /\ Succeeds) => ~(gFlags > 0) /\ gFlags' > 0
       /\ gFlags > 0
            => /\ UNCHANGED gateVars
               /\ Attempt("setGates") => last'.err = "Gates already set"]_vars

\* C15 (amended): setGates succeeds at most once; after a successful
\* setGates every later setGates fails, with 'Gates already set' when its
\* caller is the reserve and with 'Only author can set gates' otherwise, and
\* the stored flag word, the gate scalars and the gate boxes never change
\* again.
C15_GatesSetOnce ==
    [][/\ (Attempt("setGates") /\ Succeeds) => ~(gFlags > 0) /\ gFlags' > 0
       /\ gFlags > 0
            => /\ UNCHANGED gateVars
               /\ Attempt("setGates")
                    => last'.err = IF last'.caller = asset.reserve
                                   THEN "Gates already set"
                                   ELSE "Only author can set gates"]_vars

\* C15 witness: with flags 5 stored, the author's declaration of flags 4 was
\* rejected as already set.
C15_Witness ==
    /\ gFlags = 5 /\ gateHold.exists /\ gBalMin = 1000
    /\ last.op = "setGates" /\ last.caller = Reserve
    /\ last.arg.flags = 4 /\ last.err = "Gates already set"

\* A list that is empty or whose length is not a multiple of 8
BadList(blob) == Len(blob) = 0 \/ Len(blob) % 8 # 0

\* A malformed declaration: no gate selected, or a selected list gate (bit 0
\* hold, bit 1 deny) whose list is bad.
GatesMalformed(a) ==
    \/ a.flags = 0
    \/ BitSet(a.flags, 0) /\ BadList(a.asaHold)
    \/ BitSet(a.flags, 1) /\ BadList(a.asaDeny)

\* C16: setGates rejects a malformed declaration and stores nothing (the
\* flag word stays unset, no scalar is written, no box is created): flags = 0
\* fails with 'Must enable at least one gate', and a hold (deny) list that is
\* empty or not a multiple of 8 bytes long fails when bit 0 (bit 1) is set.
\* After such a failure on an opinion that is not finalized the well-formed
\* declaration still passes every guard.
C16_MalformedGatesRejected ==
    [][(Attempt("setGates") /\ GatesMalformed(last'.arg))
         => /\ ~Succeeds /\ UNCHANGED stateVars
            /\ (initialized /\ last'.caller = asset.reserve /\ ~(gFlags > 0))
                 => /\ ~(gFlags' > 0)
                    /\ gBalMin' = NoValue /\ gBalMax' = NoValue /\ gMinAge' = NoValue
                    /\ ~gateHold'.exists /\ ~gateDeny'.exists /\ ~gateNfd'.exists
                    /\ IF last'.arg.flags = 0
                       THEN last'.err = "Must enable at least one gate"
                       ELSE last'.err \in {"asaHold cannot be empty",
                                           "asaHold must be N*8 bytes",
                                           "asaDeny cannot be empty",
                                           "asaDeny must be N*8 bytes"}
                    /\ ~finalized => SetGatesErr(Reserve, GoodGateArgs)' = "ok"]_vars

\* C16 witness: the author's declaration with a 7-byte hold list under bit 0
\* was rejected, nothing is stored, and the well-formed declaration passes
\* every guard.
C16_Witness ==
    /\ last.op = "setGates" /\ last.caller = Reserve
    /\ BitSet(last.arg.flags, 0) /\ Len(last.arg.asaHold) = 7
    /\ last.err = "asaHold must be N*8 bytes"
    /\ gFlags = NoValue /\ ~gateHold.exists
    /\ SetGatesErr(Reserve, GoodGateArgs) = "ok"

\* C17 (as claimed): every setGates call that supplies a hold list or a deny
\* list whose length is not a multiple of 8 fails, whatever the flags.
C17_MisalignedAlwaysRejected ==
    [][(/\ Attempt("setGates")
        /\ (Len(last'.arg.asaHold) % 8 # 0 \/ Len(last'.arg.asaDeny) % 8 # 0))
         => ~Succeeds]_vars

C19_NotInitialized ==
    [][(/\ ~initialized
        /\ \E op \in {"writeChunk", "setGates", "sign", "extend", "finalize"} :
              Attempt(op))
         => (last'.err = "Not initialized" /\ UNCHANGED stateVars)]_vars

\* C19 witness: a well-formed sign group was rejected as not initialized at
\* the late creation round, after a payment had reached the instance.
C19_Witness ==
    /\ ~initialized /\ round = LateRound /\ appBalance > 0
    /\ last.op = "sign" /\ last.err = "Not initialized"
    /\ last.arg = GoodSignGroup(last.caller)

\* Every operation of the model
AllOps == MutatingOps \cup {"getInfo", "assetOptIn", "pay"}

\* C20: failure is atomic.  Whenever an operation fails a guard its whole
\* group is discarded: the opinion record, the content box, the gate
\* configuration, the asset configuration, the holder set and the instance
\* balance (so also the payment attached to the group) are as before.
C20_FailureAtomic ==
    [][((\E op \in AllOps : Attempt(op)) /\ ~Succeeds)
         => /\ UNCHANGED stateVars
            /\ appBalance' = appBalance /\ holders' = holders /\ payouts' = payouts]_vars

\* C20 witness: an initialize with the full funding attached failed on its
\* duration, and the instance received nothing.
C20_Witness ==
    /\ last.op = "initialize" /\ last.err = "Minimum duration 25,000 rounds"
    /\ last.arg.group.kind = "pay" /\ last.arg.group.receiver = AppAddress
    /\ last.arg.group.amount = MIN_FUNDING
    /\ ~initialized /\ appBalance = 0 /\ ~asset.exists

\* C21: whenever the instance is initialized, end_round > start_round and
\* end_round - start_round >= 25,000; an initialize whose round + duration
\* exceeds the largest uint64 fails, with nothing stored, instead of wrapping.
C21_EndAfterStart ==
    [][/\ initialized'
            => /\ endRound' > startRound'
               /\ endRound' - startRound' >= MIN_DURATION
               /\ endRound' <= MAX_UINT64
       /\ (Attempt("initialize") /\ round + last'.arg.args.duration > MAX_UINT64)
            => (~Succeeds /\ UNCHANGED stateVars)]_vars

\* C21 witness: at the late round an otherwise valid initialize failed on
\* the addition.
C21_Witness ==
    /\ last.op = "initialize" /\ last.err = "+ overflows"
    /\ round + last.arg.args.duration > MAX_UINT64
    /\ last.arg.group.amount = MIN_FUNDING /\ ~initialized

\* C22: the lifecycle flags are monotonic.  Creation leaves initialized and
\* finalized false; each flag only ever goes from false to true (so it
\* changes at most once and is never cleared), initialized only in a
\* successful initialize and finalized only in a successful finalize; and
\* finalized implies initialized in every reachable state.
C22_FlagsMonotonic ==
    /\ (~initialized /\ ~finalized)
    /\ [](finalized => initialized)
    /\ [][/\ initialized => initialized'
          /\ finalized => finalized'
          /\ initialized' # initialized => (Attempt("initialize") /\ Succeeds)
          /\ finalized' # finalized => (Attempt("finalize") /\ Succeeds)]_vars

\* C22 witness: on a finalized opinion an initialize was attempted, and both
\* flags are still set.
C22_Witness ==
    /\ initialized /\ finalized
    /\ last.op = "initialize" /\ last.err = "Already initialized"

\* C23: after initialization start_round and asa_id never change; every
\* operation other than extend leaves start_round, end_round and asa_id
\* unchanged, and a successful extend changes end_round and nothing else.
C23_TimingFrame ==
    [][initialized
         => /\ startRound' = startRound /\ asaId' = asaId
            /\ ~(Attempt("extend") /\ Succeeds) => endRound' = endRound
            /\ (Attempt("extend") /\ Succeeds)
                 => UNCHANGED <<initialized, finalized, startRound, asaId,
                                gateVars, opinionText, ledgerVars>>]_vars

\* C23 witness: after an extend, with a holder registered and gates
\* declared, start_round and asa_id are those of initialize.
C23_Witness ==
    /\ initialized /\ extends >= 1 /\ holders # {} /\ gFlags > 0
    /\ startRound = CreationRound /\ asaId = CreatedAssetId
    /\ endRound = startRound + MIN_DURATION + 1
    /\ last.op = "extend" /\ last.err = "ok"

\* C24: the asset's manager is the instance's account in every state where
\* the opinion is initialized and not finalized, and the zero address in
\* every state where it is finalized: once the asset exists its manager is
\* the zero address if and only if the opinion is finalized.
C24_ManagerIffFinalized ==
    /\ (initialized /\ ~finalized) => (asset.exists /\ asset.manager = AppAddress)
    /\ finalized => (asset.exists /\ asset.manager = ZeroAddress)
    /\ asset.exists => (asset.manager = ZeroAddress <=> finalized)

\* C24 witness: a finalized opinion with a registered holder, whose asset
\* was reconfigured once and has no manager.
C24_Witness ==
    /\ finalized /\ asset.exists /\ asset.manager = ZeroAddress
    /\ reconfigs = 1 /\ holders # {}

\* C25: the asset's reserve is set once, in initialize, to the caller, and
\* has the same value in every later state, also after finalize has
\* reconfigured the asset.
C25_ReserveFixed ==
    [][/\ (Attempt("initialize") /\ Succeeds)
            => (~asset.exists /\ asset'.reserve = last'.caller)
       /\ asset.exists => (asset'.exists /\ asset'.reserve = asset.reserve)
       /\ asset'.reserve # asset.reserve => (Attempt("initialize") /\ Succeeds)]_vars

\* C25 witness: the other account finalized the opinion, the asset was
\* reconfigured, and its reserve is still the initializer.
C25_Witness ==
    /\ finalized /\ reconfigs = 1 /\ asset.reserve = "alice"
    /\ last.op = "finalize" /\ last.err = "ok" /\ last.caller = "bob"

\* C26 (as claimed): re-signing is rejected.  In the state a successful sign
\* group leaves, while the opinion is still active, the identical group from
\* the same account fails a guard.
C26_ResignRejected ==
    (/\ last.op = "sign" /\ last.err = "ok" /\ last.caller \in holders
     /\ initialized /\ ~finalized /\ round <= endRound)
        => SignErr(last.caller, last.arg) # "ok"

\* C27: gate list codec round trip.  For every list ids of N identifiers,
\* packUint64Array(ids) is exactly 8*N bytes long, entry i occupies bytes
\* 8(i-1)+1 .. 8i with its most significant byte first, and
\* unpackUint64Array(packUint64Array(ids)) is ids, element for element in
\* the same order.
C27_CodecRoundTrip ==
    /\ last.op = "packUint64Array"
         => /\ Len(last.ret) = 8 * Len(last.arg)
            /\ \A i \in 1 .. Len(last.arg) :
                 /\ \A k \in 0 .. 3 :
                      last.ret[8 * i - k] = (last.arg[i] \div (256 ^ k)) % 256
                 /\ \A k \in 4 .. 7 : last.ret[8 * i - k] = 0
            /\ unpackUint64Array(last.ret) = last.arg
    /\ last.op = "unpackUint64Array"
         => /\ Len(last.ret) * 8 = Len(last.arg)
            /\ packUint64Array(last.ret) = last.arg

\* C27 witness: a list of three identifiers, among them 256 and 16909060
\* (bytes 1, 2, 3, 4), came back from its 24 bytes.
C27_Witness ==
    /\ last.op = "unpackUint64Array" /\ Len(last.arg) = 24
    /\ last.ret = <<256, 16909060, 2147483647>>
    /\ last.arg[7] = 1 /\ last.arg[8] = 0
    /\ last.arg[13] = 1 /\ last.arg[14] = 2 /\ last.arg[16] = 4

\* C28 (as claimed): getInfo has no precondition and is read-only.  In
\* every reachable state, a created but uninitialized instance included, it
\* succeeds for any caller, returns the stored (start_round, end_round,
\* asa_id, finalized, initialized), and leaves the state unchanged.
C28_GetInfoTotal ==
    [][Attempt("getInfo")
         => /\ Succeeds
            /\ last'.ret = <<startRound, endRound, asaId, finalized, initialized>>
            /\ UNCHANGED stateVars]_vars

\* C29 (as claimed): the gate declaration comes before all sign operations:
\* no setGates succeeds once a sign group has committed.  Stated for the
\* states in which the operation last committed is a sign group.
C29_GatesBeforeSigns ==
    [][(last.op = "sign" /\ last.err = "ok")
         => ~(Attempt("setGates") /\ Succeeds)]_vars

\* The bytes of data that a write at offset puts at box offset i
Written(offset, data, i) == i >= offset /\ i < offset + Len(data)

\* C30: a successful writeChunk(offset, data) replaces exactly the bytes
\* [offset, offset + len(data)) of the content box with data and leaves every
\* other byte, the box size and all other state unchanged; the author's
\* in-range write on an active opinion succeeds; a write with offset +
\* len(data) above the box size fails with the box unchanged.  So the box
\* size never changes, a later write overrides an earlier one where they
\* overlap, and a write of bytes that are already there changes nothing.
C30_WriteChunkEffect ==
    [][/\ opinionText'.size = opinionText.size
       /\ opinionText'.exists = opinionText.exists
       /\ Attempt("writeChunk")
            => LET offset == last'.arg.offset
                   data == last'.arg.data
               IN  /\ Succeeds
                        => /\ \A i \in 0 .. opinionText.size - 1 :
                                BoxByte(opinionText', i) =
                                  IF Written(offset, data, i)
                                  THEN data[i - offset + 1]
                                  ELSE BoxByte(opinionText, i)
                           /\ DOMAIN opinionText'.nz \subseteq 0 .. opinionText.size - 1
                           /\ UNCHANGED <<initialized, finalized, startRound, endRound,
                                          asaId, gateVars, ledgerVars>>
                           /\ (\A i \in 0 .. opinionText.size - 1 :
                                 Written(offset, data, i)
                                   => BoxByte(opinionText, i) = data[i - offset + 1])
                                => opinionText' = opinionText
                   /\ offset + Len(data) > opinionText.size
                        => (~Succeeds /\ UNCHANGED stateVars)
                   /\ (/\ initialized /\ ~finalized /\ last'.caller = asset.reserve
                       /\ offset + Len(data) <= opinionText.size) => Succeeds]_vars

\* C30 witness: the write of <<0, 2>> at offset 1 succeeded on a box whose
\* first byte an earlier write had set; the box now reads 1, 0, 2.
C30_Witness ==
    /\ last.op = "writeChunk" /\ last.err = "ok"
    /\ last.arg.offset = 1 /\ last.arg.data = <<0, 2>>
    /\ opinionText.size = TextSize
    /\ BoxByte(opinionText, 0) = 1 /\ BoxByte(opinionText, 1) = 0
    /\ BoxByte(opinionText, 2) = 2
\* C31: the content box is frozen by finalization.  No step taken from a
\* finalized state changes the content box (and the opinion stays
\* finalized), so in every state after a successful finalize the box holds
\* the bytes it held right after that finalize, whatever the author or
\* anyone else submits; the finalize itself leaves the box as it found it.
C31_TextFrozen ==
    [][/\ finalized => (finalized' /\ opinionText' = opinionText)
       /\ (Attempt("finalize") /\ Succeeds) => opinionText' = opinionText
       /\ (finalized /\ Attempt("writeChunk"))
            => (~Succeeds /\ UNCHANGED stateVars)]_vars

\* C31 witness: after finalization the author's in-range write of a byte
\* that differs from the stored one was rejected, and the box is as it was.
C31_Witness ==
    /\ finalized /\ last.op = "writeChunk" /\ last.caller = Reserve
    /\ last.err = "Opinion already finalized"
    /\ BoxReplaceOk(opinionText, last.arg.offset, last.arg.data)
    /\ BoxReplace(opinionText, last.arg.offset, last.arg.data) # opinionText
\* Bit k of the stored flag word is set (an unset word has no bit set).
FlagStored(k) == gFlags # NoValue /\ BitSet(gFlags, k)

\* The bytes of a box, first to last
BoxBytes(box) == [i \in 1 .. box.size |-> BoxByte(box, i - 1)]

\* The gate storage layout: which boxes and scalars the flag word implies
GateLayout ==
    /\ gateHold.exists <=> FlagStored(0)
    /\ gateDeny.exists <=> FlagStored(1)
    /\ gateNfd.exists <=> FlagStored(6)
    /\ gBalMin # NoValue => FlagStored(2)
    /\ gBalMax # NoValue => FlagStored(3)
    /\ gMinAge # NoValue => FlagStored(5)
    /\ gateHold.exists => (gateHold.size > 0 /\ gateHold.size % 8 = 0)
    /\ gateDeny.exists => (gateDeny.size > 0 /\ gateDeny.size % 8 = 0)

\* C32: gate storage layout.  In every reachable state the hold-list box
\* exists iff bit 0 of the stored flag word is set, the deny-list box iff
\* bit 1, the identity-root box iff bit 6; the minimum-balance, maximum-
\* balance and minimum-age slots hold a value only when bits 2, 3 and 5 are
\* set; each existing list box is a positive multiple of 8 bytes long; and
\* each box holds the blob supplied to the setGates that created it, byte
\* for byte, from then on.
C32_GateLayout ==
    /\ []GateLayout
    /\ [][/\ (Attempt("setGates") /\ Succeeds)
              => /\ gateHold'.exists => BoxBytes(gateHold') = last'.arg.asaHold
                 /\ gateDeny'.exists => BoxBytes(gateDeny') = last'.arg.asaDeny
                 /\ gateNfd'.exists => BoxBytes(gateNfd') = last'.arg.nfdRoot
                 /\ gBalMin' # NoValue => gBalMin' = last'.arg.balMin
                 /\ gBalMax' # NoValue => gBalMax' = last'.arg.balMax
                 /\ gMinAge' # NoValue => gMinAge' = last'.arg.minAge
          /\ gateHold.exists => gateHold' = gateHold
          /\ gateDeny.exists => gateDeny' = gateDeny
          /\ gateNfd.exists => gateNfd' = gateNfd]_vars

\* C32 witness: the declaration with all seven bits stored a 16-byte hold
\* list (255, 16909060), an 8-byte deny list, the identity root and the
\* three scalars.
C32_Witness ==
    /\ gFlags = 127
    /\ BoxBytes(gateHold) = <<0, 0, 0, 0, 0, 0, 0, 255, 0, 0, 0, 0, 1, 2, 3, 4>>
    /\ BoxBytes(gateDeny) = <<0, 0, 0, 0, 0, 0, 1, 0>>
    /\ BoxBytes(gateNfd) = <<100, 97, 111>>
    /\ gBalMin = 1000 /\ gBalMax = 2000 /\ gMinAge = 10
\* C33 (as claimed): the stored flag word only ever uses the seven defined
\* bits: in every reachable state it is unset or between 0 and 127.
C33_FlagsDefinedBits ==
    gFlags = NoValue \/ (gFlags >= 0 /\ gFlags <= 127)
\* C34: in every reachable state finalized implies round > end_round: the
\* round counter only advances and end_round does not change once the
\* opinion is finalized.  So the signing window and finalization never
\* overlap, and a sign attempted on a finalized opinion already fails the
\* round guard ('Opinion has ended'), before the finalized guard is reached.
C34_FinalizedAfterEnd ==
    /\ [](finalized => round > endRound)
    /\ [][/\ round' >= round
          /\ finalized => endRound' = endRound
          /\ (finalized /\ Attempt("sign"))
               => (last'.err = "Opinion has ended" /\ UNCHANGED stateVars)]_vars

\* C34 witness: on a finalized opinion a well-formed sign group of an
\* account that never signed was rejected by the round guard.
C34_Witness ==
    /\ finalized /\ round > endRound
    /\ last.op = "sign" /\ last.arg = GoodSignGroup(last.caller)
    /\ last.err = "Opinion has ended" /\ last.caller \notin holders
\* C35: the outcome of writeChunk does not depend on the round or on the
\* holder set.  A write succeeds exactly when the opinion is initialized and
\* not finalized, the caller is the reserve and the range lies in the box,
\* a condition that reads neither the round nor the holders; so the
\* author's in-range write succeeds at any round, also after signatures
\* were registered and after end_round has passed, until finalize commits.
C35_WriteAnyRound ==
    [][Attempt("writeChunk")
         => /\ Succeeds <=> /\ initialized /\ ~finalized
                            /\ last'.caller = asset.reserve
                            /\ opinionText.exists
                            /\ last'.arg.offset + Len(last'.arg.data) <= opinionText.size
            /\ Succeeds => UNCHANGED <<round, holders, endRound>>]_vars

\* C35 witness: the author's write succeeded after end_round had passed, on
\* an opinion that has a holder and is not finalized.
C35_Witness ==
    /\ last.op = "writeChunk" /\ last.err = "ok" /\ last.caller = Reserve
    /\ round > endRound /\ holders # {} /\ ~finalized
    /\ BoxByte(opinionText, last.arg.offset) = last.arg.data[1]
\* C36: a successful sign group writes no contract state: start_round,
\* end_round, asa_id, initialized, finalized, the content box, the gate
\* flags, scalars and boxes, the asset configuration and the instance
\* balance are unchanged, and nothing is paid out; its only effect is that
\* the caller is a holder of the Signature Asset.
C36_SignFrame ==
    [][(Attempt("sign") /\ Succeeds)
         => /\ UNCHANGED <<initialized, finalized, startRound, endRound, asaId>>
            /\ opinionText' = opinionText
            /\ UNCHANGED gateVars
            /\ asset' = asset /\ appBalance' = appBalance
            /\ payouts' = payouts /\ reconfigs' = reconfigs
            /\ last'.caller \in holders'
            /\ holders' \ {last'.caller} = holders \ {last'.caller}]_vars

\* C36 witness: the second account signed an opinion whose content was
\* written, whose gates were declared and that had received a payment; it is
\* the only holder.
C36_Witness ==
    /\ last.op = "sign" /\ last.err = "ok" /\ last.caller # Reserve
    /\ holders = {last.caller}
    /\ opinionText.nz # EmptyBytes /\ gFlags = 4
    /\ appBalance = MIN_FUNDING + 150000
\* C37: the instance transfers funds out only inside a successful finalize.
\* At every other step its balance does not decrease and it issues no
\* payment; the successful finalize issues one payment, to its caller, of
\* what the balance falls by, and it is the only payment of the whole
\* history; once the opinion is finalized the balance never decreases and no
\* payment is issued, so funds that arrive after finalization stay.
C37_FundsLeaveInFinalize ==
    /\ [](Len(payouts) <= 1 /\ (finalized <=> Len(payouts) = 1))
    /\ [][/\ appBalance' < appBalance => (Attempt("finalize") /\ Succeeds)
          /\ payouts' # payouts
               => /\ Attempt("finalize") /\ Succeeds
                  /\ payouts = <<>>
                  /\ payouts' = <<[to |-> last'.caller,
                                   amount |-> appBalance - appBalance']>>
          /\ finalized => (appBalance' >= appBalance /\ payouts' = payouts)]_vars

\* C37 witness: a payment reached the instance after finalization, a
\* finalize was attempted after that, and the payment is still there.
C37_Witness ==
    /\ finalized /\ Len(payouts) = 1 /\ donations = 1
    /\ payouts[1].amount = MIN_FUNDING - MinBalance
    /\ appBalance = MinBalance + 150000
    /\ last.op = "finalize" /\ last.err = "Opinion already finalized"
\* C38: liveness of finalization.  For an initialized opinion, if the round
\* counter keeps advancing, the author extends only finitely often and
\* finalize is attempted again and again, the opinion is eventually
\* finalized, and from then on it stays finalized forever.
C38_EventuallyFinalized ==
    /\ initialized ~> finalized
    /\ [](finalized => []finalized)

\* C38 witness: the opinion was finalized after the author had extended it.
C38_Witness ==
    /\ finalized /\ extends >= 1
    /\ endRound > startRound + MIN_DURATION /\ round > endRound
    /\ last.op = "finalize" /\ last.err = "ok"
\* C39: the client's creation bundle.  For a text of n >= 1 bytes the group
\* is a payment, then initialize declaring content size n, then writeChunk
\* calls at offsets 0, 2000, 4000, ... each carrying the text's bytes of its
\* range, the ranges covering every byte of [0, n) exactly once.  When the
\* group commits the content box is n bytes long and equals the text byte
\* for byte; when any part of it fails the opinion is not initialized and
\* nothing is stored.
C39_CreationBundle ==
    [][(Attempt("handleSubmit") /\ Len(last'.arg.text) >= 1)
         => LET text == last'.arg.text
                group == last'.arg.group
                n == Len(text)
                writes == 3 .. Len(group)
            IN  /\ group[1].kind = "pay" /\ group[2].kind = "initialize"
                /\ group[2].args.textSize = n
                /\ \A k \in writes :
                     /\ group[k].kind = "writeChunk"
                     /\ group[k].offset = (k - 3) * 2000
                     /\ Len(group[k].data) >= 1
                     /\ group[k].offset + Len(group[k].data) <= n
                     /\ \A j \in 1 .. Len(group[k].data) :
                          group[k].data[j] = text[group[k].offset + j]
                /\ \A i \in 0 .. n - 1 :
                     Cardinality({k \in writes :
                                    Written(group[k].offset, group[k].data, i)}) = 1
                /\ Succeeds
                     => /\ initialized' /\ opinionText'.exists
                        /\ opinionText'.size = n
                        /\ BoxBytes(opinionText') = text
                /\ ~Succeeds => (~initialized' /\ UNCHANGED stateVars)]_vars

\* C39 witness: a text of 4001 bytes was committed in a group of five
\* transactions, the last one writing the single byte at offset 4000.
C39_Witness ==
    /\ last.op = "handleSubmit" /\ last.err = "ok" /\ initialized
    /\ Len(last.arg.text) = 4001 /\ Len(last.arg.group) = 5
    /\ last.arg.group[4].offset = 2000 /\ Len(last.arg.group[4].data) = 2000
    /\ last.arg.group[5].offset = 4000 /\ Len(last.arg.group[5].data) = 1
    /\ BoxByte(opinionText, 4000) = last.arg.text[4001]
    /\ BoxByte(opinionText, 4000) # 0
====
